---------------------------- MODULE Spec2Model ----------------------------
(***************************************************************************)
(* A model of the Mangable comic-metadata service (src/app): the           *)
(* credential resolver (core/deps.py, core/security.py), the API-key       *)
(* endpoints (api/api_keys.py) and the comic endpoints (api/comics.py).    *)
(*                                                                         *)
(* Conventions.                                                            *)
(*   - An Optional[T] of the source is None (the empty tuple) or Some(v)   *)
(*     (the one-element tuple <<v>>).                                      *)
(*   - A Python str the code looks into (keys, search patterns, comic      *)
(*     fields) is a tuple of character codes; a str the code only stores   *)
(*     (names, messages) is a TLA+ string.                                 *)
(*   - A datetime is an integer number of minutes.                         *)
(*   - Every request is one action: the dependencies of the endpoint       *)
(*     (get_current_user and its two resolvers, with the commit of         *)
(*     last_used_at) followed by the endpoint's body.  The response of the *)
(*     last request is kept in resp; where a specification starts with the *)
(*     history switched on, prev keeps the op, caller and status of the    *)
(*     two responses before it.                                            *)
(***************************************************************************)
EXTENDS Integers, Sequences, FiniteSets, TLC

VARIABLES
    users,      \* table users: tuple of rows, a row's id is its index
    api_keys,   \* table api_keys: tuple of rows in insertion order, id = index
    comics,     \* table comics: set of rows (a deleted row is removed)
    next_comic, \* the id the next inserted comic gets (uuid4: never reused)
    now,        \* the clock, datetime.now(timezone.utc)
    resp,       \* the request handled last and its response
    prev,       \* op, caller and status of the two responses before resp
    pc,         \* concurrent create_api_key requests: position of each
    local       \* concurrent create_api_key requests: caller and the rows read

vars == <<users, api_keys, comics, next_comic, now, resp, prev, pc, local>>

---------------------------------------------------------------------------
\* Bounds of the model.

\* rows the table api_keys may hold
MaxKeys == 12
\* the clock stops at MaxTime
MaxTime == 1
\* comics ever inserted where comics are listed
MaxComics == 3
\* comics ever inserted where comics are edited or exported
MaxEdited == 2
\* rows the table users may hold
MaxUsers == 6
\* rows the table api_keys may hold where two users manage their keys
MaxOwnKeys == 3
\* rows the table api_keys may hold where requests present keys
MaxAuthKeys == 2
\* create_api_key requests in flight at once
NumProcs == 2
\* keys the user holds when the concurrent requests start
RaceSeed == 8

---------------------------------------------------------------------------
\* Optional values and Python truthiness.

None == << >>
Some(v) == <<v>>
Val(o) == o[1]

\* F applied to the value of v, with v evaluated once.
Bind(v, F(_)) == CHOOSE r \in {F(x) : x \in {v}} : TRUE

\* Python `a or b` on Optional objects that are truthy when present.
PyOr(a, b) == IF a # None THEN a ELSE b

\* Truthiness of an Optional[str]: None and "" are falsy.
TruthyStr(o) == o # None /\ Val(o) # << >>

\* Truthiness of an Optional[int]: None and 0 are falsy.
TruthyInt(o) == o # None /\ Val(o) # 0

---------------------------------------------------------------------------
\* core/config.py and core/security.py

\* "mng_"
API_KEY_PREFIX == <<109, 110, 103, 95>>

ACCESS_TOKEN_EXPIRE_MINUTES == 60 * 24 * 7

\* string.ascii_letters + string.digits
Alphabet ==
    [i \in 1..62 |-> IF i <= 26 THEN 96 + i
                     ELSE IF i <= 52 THEN 64 + (i - 26)
                     ELSE 47 + (i - 52)]

\* number of random characters of a key
RandomLen == 48
\* characters of the full key kept as key_prefix
PrefixLen == 10
\* active keys a user may hold
MaxActiveKeys == 10

\* The outcomes of the 48 calls of secrets.choice the model draws from: the
\* draw numbered n.  Draws 2k and 2k+1 agree on their first characters, so two
\* keys may share their key_prefix.
Draw(n) ==
    [i \in 1..RandomLen |->
        IF i <= PrefixLen THEN (((n \div 2) * 7 + i) % 62) + 1
        ELSE ((n * 5 + i) % 62) + 1]

\* generate_api_key, given the outcomes of secrets.choice as indices into the
\* alphabet.
generate_api_key(draw) ==
    API_KEY_PREFIX \o [i \in 1..RandomLen |-> Alphabet[draw[i]]]

\* hash_api_key: a digest of the characters (SHA-256 in the source; here a
\* polynomial digest, one-way in that the stored number does not hold the
\* characters).
hash_api_key(api_key) ==
    LET digest[i \in 0..Len(api_key)] ==
            IF i = 0 THEN 7 ELSE (digest[i - 1] * 31 + api_key[i]) % 1000003
    IN digest[Len(api_key)]

\* full_key[:10]
Slice(s, n) == SubSeq(s, 1, IF Len(s) < n THEN Len(s) ELSE n)

\* A bearer token: the claims and whether the signature verifies under
\* SECRET_KEY.  create_access_token signs {"sub": id, "exp": now + ttl}.
create_access_token(sub, at) ==
    [sub |-> Some(sub), exp |-> at + ACCESS_TOKEN_EXPIRE_MINUTES, sig_ok |-> TRUE]

\* decode_access_token: the payload, or None on a JWTError (bad signature,
\* or exp in the past).
decode_access_token(token, at) ==
    IF token.sig_ok /\ ~(token.exp < at)
    THEN Some([sub |-> token.sub, exp |-> token.exp])
    ELSE None

---------------------------------------------------------------------------
\* models/models.py: the rows.

UserRow(id, username, is_active, is_admin) ==
    [id |-> id, username |-> username, email |-> username \o "@example.com",
     hashed_password |-> <<"bcrypt", username \o "-password">>,
     is_active |-> is_active, is_admin |-> is_admin]

ApiKeyRow(id, user_id, name, key_hash, key_prefix, expires_at, at) ==
    [id |-> id, user_id |-> user_id, name |-> name, key_hash |-> key_hash,
     key_prefix |-> key_prefix, is_active |-> TRUE, last_used_at |-> None,
     created_at |-> at, expires_at |-> expires_at]

\* The users the store holds: two ordinary users, an admin, and a user whose
\* account was deactivated after issuing a key.
Alice == 1
Bob == 2
Carol == 3
Dave == 4

SeedUsers ==
    << UserRow(Alice, "alice", TRUE, FALSE),
       UserRow(Bob, "bob", TRUE, FALSE),
       UserRow(Carol, "carol", TRUE, TRUE),
       UserRow(Dave, "dave", FALSE, FALSE) >>

UserIds == 1..4

\* The key of the deactivated user, issued from draw 0.
DaveKey == generate_api_key(Draw(0))

SeedKeys ==
    << ApiKeyRow(1, Dave, "daves", hash_api_key(DaveKey),
                 Slice(DaveKey, PrefixLen), None, 0) >>

---------------------------------------------------------------------------
\* core/deps.py: the credential resolver.  A request's credentials are
\* cred = [token |-> Optional token, api_key |-> Optional header value].

NoCred == [token |-> None, api_key |-> None]

\* select(User).where(User.id == id, User.is_active == True)
ActiveUser(id) ==
    IF id \in DOMAIN users /\ users[id].is_active THEN Some(id) ELSE None

get_current_user_from_token(credentials) ==
    IF credentials = None THEN None
    ELSE LET payload == decode_access_token(Val(credentials), now) IN
         IF payload = None THEN None
         ELSE LET user_id == Val(payload).sub IN
              IF user_id = None THEN None
              ELSE ActiveUser(Val(user_id))

\* select(ApiKey).where(key_hash == hash, is_active == True): key_hash is
\* unique, so at most one row.
ApiKeyObj(api_key, keys) ==
    Bind(hash_api_key(api_key), LAMBDA key_hash :
        LET hit == {k \in DOMAIN keys :
                       keys[k].key_hash = key_hash /\ keys[k].is_active}
        IN IF hit = {} THEN None ELSE Some(CHOOSE k \in hit : TRUE))

\* The test of expires_at dropped.
Expired_Never(row) == FALSE

\* if api_key_obj.expires_at and api_key_obj.expires_at < now
Expired(row) == row.expires_at # None /\ Val(row.expires_at) < now

\* The row the header resolves to, if any: the header is present and
\* non-empty, an active row has its hash, and the row is not expired.
KeyAccepted(api_key, keys) ==
    IF api_key = None \/ Val(api_key) = << >> THEN None
    ELSE Bind(ApiKeyObj(Val(api_key), keys), LAMBDA obj :
             IF obj = None THEN None
             ELSE IF Expired(keys[Val(obj)]) THEN None
             ELSE obj)

\* The key resolver without the update of last_used_at.
get_current_user_from_api_key_NoTouch(api_key, keys) ==
    Bind(KeyAccepted(api_key, keys), LAMBDA obj :
        [user |-> IF obj = None THEN None
                  ELSE ActiveUser(keys[Val(obj)].user_id),
         keys |-> keys])

\* get_current_user_from_api_key: the user it returns and the table it has
\* committed (api_key_obj.last_used_at = now; await db.commit()).
get_current_user_from_api_key(api_key, keys) ==
    Bind(KeyAccepted(api_key, keys), LAMBDA obj :
        IF obj = None THEN [user |-> None, keys |-> keys]
        ELSE [user |-> ActiveUser(keys[Val(obj)].user_id),
              keys |-> [keys EXCEPT ![Val(obj)].last_used_at = Some(now)]])

\* The resolver with the key taking precedence.
get_current_user_KeyFirst(cred, keys) ==
    Bind(get_current_user_from_api_key(cred.api_key, keys), LAMBDA by_key :
        [user |-> PyOr(by_key.user, get_current_user_from_token(cred.token)),
         keys |-> by_key.keys])

\* get_current_user with both of its dependencies: user = token_user or
\* api_key_user (None stands for the 401), and the table the key resolver
\* has committed.
get_current_user(cred, keys) ==
    Bind(get_current_user_from_api_key(cred.api_key, keys), LAMBDA by_key :
        [user |-> PyOr(get_current_user_from_token(cred.token), by_key.user),
         keys |-> by_key.keys])

---------------------------------------------------------------------------
\* Responses.

Response(op, status, detail, user, cred, arg, body) ==
    [op |-> op, status |-> status, detail |-> detail, user |-> user,
     cred |-> cred, arg |-> arg, body |-> body]

NotAuthenticated(op, cred, arg) ==
    Response(op, 401, "Not authenticated", None, cred, arg, None)

\* The 422 of a body that fails validation.
Unprocessable(op, user, cred, arg) ==
    Response(op, 422, "validation error", user, cred, arg, None)

Brief(r) == [op |-> r.op, user |-> r.user, status |-> r.status]

NoResponse == Response("none", 0, "", None, NoCred, None, None)

\* prev = None: no history is kept.
Shift == IF prev = None THEN None ELSE <<prev[2], Brief(resp)>>

---------------------------------------------------------------------------
\* api/api_keys.py

\* select(ApiKey).where(ApiKey.user_id == current_user.id,
\*                      ApiKey.is_active == True)
ActiveKeysOf(user_id, keys) ==
    {k \in DOMAIN keys : keys[k].user_id = user_id /\ keys[k].is_active}

\* The check with the comparison off by one.
CapacityReached_OffByOne(active_keys) == Cardinality(active_keys) > MaxActiveKeys

\* if len(active_keys) >= 10
CapacityReached(active_keys) == Cardinality(active_keys) >= MaxActiveKeys

\* ApiKeyOut.model_validate(api_key).model_dump()
ApiKeyOut(row) ==
    [id |-> row.id, name |-> row.name, key_prefix |-> row.key_prefix,
     is_active |-> row.is_active, last_used_at |-> row.last_used_at,
     created_at |-> row.created_at, expires_at |-> row.expires_at]

\* ApiKeyCreated(**ApiKeyOut..., full_key=full_key)
ApiKeyCreated(row, full_key) ==
    [out |-> ApiKeyOut(row), full_key |-> full_key]

\* The row with the whole key kept as its prefix.
NewApiKey_WholeKey(user_id, payload, full_key, keys) ==
    ApiKeyRow(Len(keys) + 1, user_id, payload.name, hash_api_key(full_key),
              full_key, payload.expires_at, now)

\* The row create_api_key inserts for the key drawn.
NewApiKey(user_id, payload, full_key, keys) ==
    ApiKeyRow(Len(keys) + 1, user_id, payload.name, hash_api_key(full_key),
              Slice(full_key, PrefixLen), payload.expires_at, now)

\* POST /api-keys.  draw: the outcomes of secrets.choice; a draw whose key
\* is already stored is left out (the unique constraint on key_hash would
\* reject the insert).  maxrows: the model's bound on the table.
CreateApiKey(cred, payload, draw, maxrows) ==
    /\ \E auth \in {get_current_user(cred, api_keys)} :
       LET keys1 == auth.keys
           user == auth.user
       IN IF user = None
          THEN /\ api_keys' = keys1
               /\ resp' = NotAuthenticated("create_api_key", cred, payload)
          ELSE IF CapacityReached(ActiveKeysOf(Val(user), keys1))
          THEN /\ api_keys' = keys1
               /\ resp' = Response("create_api_key", 400,
                                   "Maximum 10 active API keys per user",
                                   user, cred, payload, None)
          ELSE LET full_key == generate_api_key(draw)
                   row == NewApiKey(Val(user), payload, full_key, keys1)
               IN /\ Len(api_keys) < maxrows
                  /\ \A k \in DOMAIN keys1 : keys1[k].key_hash # row.key_hash
                  /\ api_keys' = Append(keys1, row)
                  /\ resp' = Response("create_api_key", 201, "", user, cred,
                                      payload, Some(ApiKeyCreated(row, full_key)))
    /\ prev' = Shift
    /\ UNCHANGED <<users, comics, next_comic, now, pc, local>>

\* POST /api-keys as the steps several requests in flight interleave: the
\* dependencies, the SELECT of the active keys, the check, the construction of
\* the row (db.add keeps it in the session, invisible to other requests) and
\* the commit that inserts it.
NoLocal ==
    [cred |-> NoCred, payload |-> None, user |-> None, active_keys |-> {},
     row |-> None, full_key |-> None]

CreateBegin(p, cred, payload) ==
    /\ pc[p] = "idle"
    /\ \E auth \in {get_current_user(cred, api_keys)} :
       LET user == auth.user
       IN /\ api_keys' = auth.keys
          /\ IF user = None
             THEN /\ resp' = NotAuthenticated("create_api_key", cred, payload)
                  /\ prev' = Shift
                  /\ UNCHANGED <<pc, local>>
             ELSE /\ pc' = [pc EXCEPT ![p] = "select"]
                  /\ local' = [local EXCEPT ![p] =
                        [NoLocal EXCEPT !.cred = cred,
                                        !.payload = Some(payload),
                                        !.user = user]]
                  /\ UNCHANGED <<resp, prev>>
    /\ UNCHANGED <<users, comics, next_comic, now>>

CreateSelect(p) ==
    /\ pc[p] = "select"
    /\ local' = [local EXCEPT ![p].active_keys =
                    ActiveKeysOf(Val(local[p].user), api_keys)]
    /\ pc' = [pc EXCEPT ![p] = "check"]
    /\ UNCHANGED <<users, api_keys, comics, next_comic, now, resp, prev>>

CreateCheck(p) ==
    /\ pc[p] = "check"
    /\ IF CapacityReached(local[p].active_keys)
       THEN /\ resp' = Response("create_api_key", 400,
                                "Maximum 10 active API keys per user",
                                local[p].user, local[p].cred,
                                Val(local[p].payload), None)
            /\ prev' = Shift
            /\ pc' = [pc EXCEPT ![p] = "idle"]
            /\ local' = [local EXCEPT ![p] = NoLocal]
       ELSE /\ pc' = [pc EXCEPT ![p] = "add"]
            /\ UNCHANGED <<resp, prev, local>>
    /\ UNCHANGED <<users, api_keys, comics, next_comic, now>>

CreateAdd(p, draw) ==
    /\ pc[p] = "add"
    /\ LET full_key == generate_api_key(draw)
           row == NewApiKey(Val(local[p].user), Val(local[p].payload),
                            full_key, api_keys)
       IN /\ \A k \in DOMAIN api_keys : api_keys[k].key_hash # row.key_hash
          /\ local' = [local EXCEPT ![p].row = Some(row),
                                    ![p].full_key = Some(full_key)]
    /\ pc' = [pc EXCEPT ![p] = "commit"]
    /\ UNCHANGED <<users, api_keys, comics, next_comic, now, resp, prev>>

CreateCommit(p, maxrows) ==
    /\ pc[p] = "commit"
    /\ Len(api_keys) < maxrows
    /\ LET row == [Val(local[p].row) EXCEPT !.id = Len(api_keys) + 1]
       IN /\ \A k \in DOMAIN api_keys : api_keys[k].key_hash # row.key_hash
          /\ api_keys' = Append(api_keys, row)
          /\ resp' = Response("create_api_key", 201, "", local[p].user,
                              local[p].cred, Val(local[p].payload),
                              Some(ApiKeyCreated(row, Val(local[p].full_key))))
    /\ prev' = Shift
    /\ pc' = [pc EXCEPT ![p] = "idle"]
    /\ local' = [local EXCEPT ![p] = NoLocal]
    /\ UNCHANGED <<users, comics, next_comic, now>>

\* order_by(ApiKey.created_at.desc()): the orders in which the rows ids may
\* come, rows created at the same time in any order.
RECURSIVE NewestFirst(_, _)
NewestFirst(ids, keys) ==
    IF ids = {} THEN {<< >>}
    ELSE UNION { { <<m>> \o rest : rest \in NewestFirst(ids \ {m}, keys) } :
                 m \in {k \in ids : \A j \in ids :
                                       keys[j].created_at <= keys[k].created_at} }

\* The select of list_api_keys without the owner.
KeysOf_AnyOwner(user_id, keys) == DOMAIN keys

\* select(ApiKey).where(ApiKey.user_id == current_user.id)
KeysOf(user_id, keys) == {k \in DOMAIN keys : keys[k].user_id = user_id}

\* GET /api-keys
ListApiKeys(cred) ==
    /\ \E auth \in {get_current_user(cred, api_keys)} :
       LET keys1 == auth.keys
           user == auth.user
       IN /\ api_keys' = keys1
          /\ IF user = None
             THEN resp' = NotAuthenticated("list_api_keys", cred, None)
             ELSE \E ids \in NewestFirst(KeysOf(Val(user), keys1), keys1) :
                     resp' = Response("list_api_keys", 200, "", user, cred, None,
                                      Some([i \in DOMAIN ids |->
                                               ApiKeyOut(keys1[ids[i]])]))
    /\ prev' = Shift
    /\ UNCHANGED <<users, comics, next_comic, now, pc, local>>

\* select(ApiKey).where(ApiKey.id == key_id, ApiKey.user_id == current_user.id)
OwnKey(key_id, user_id, keys) ==
    key_id \in DOMAIN keys /\ keys[key_id].user_id = user_id

\* The revocation that also forgets when the key was used.
Revoked_UseForgotten(keys, key_id) ==
    [keys EXCEPT ![key_id].is_active = FALSE, ![key_id].last_used_at = None]

\* api_key.is_active = False; await db.commit()
Revoked(keys, key_id) == [keys EXCEPT ![key_id].is_active = FALSE]

\* DELETE /api-keys/{key_id}
RevokeApiKey(cred, key_id) ==
    /\ \E auth \in {get_current_user(cred, api_keys)} :
       LET keys1 == auth.keys
           user == auth.user
       IN IF user = None
          THEN /\ api_keys' = keys1
               /\ resp' = NotAuthenticated("revoke_api_key", cred, key_id)
          ELSE IF ~OwnKey(key_id, Val(user), keys1)
          THEN /\ api_keys' = keys1
               /\ resp' = Response("revoke_api_key", 404, "API key not found",
                                   user, cred, key_id, None)
          ELSE /\ api_keys' = Revoked(keys1, key_id)
               /\ resp' = Response("revoke_api_key", 204, "", user, cred,
                                   key_id, None)
    /\ prev' = Shift
    /\ UNCHANGED <<users, comics, next_comic, now, pc, local>>

---------------------------------------------------------------------------
\* api/auth.py

\* GET /auth/me
GetMe(cred) ==
    /\ \E auth \in {get_current_user(cred, api_keys)} :
       LET user == auth.user
       IN /\ api_keys' = auth.keys
          /\ IF user = None
             THEN resp' = NotAuthenticated("get_me", cred, None)
             ELSE resp' = Response("get_me", 200, "", user, cred, None, user)
    /\ prev' = Shift
    /\ UNCHANGED <<users, comics, next_comic, now, pc, local>>

\* UserRegister: username of 3 to 50 characters, password of at least 8.
\* The requests modelled carry usernames of the pattern and well-formed,
\* normalised e-mail addresses.
UserRegisterValid(payload) ==
    /\ Len(payload.username) >= 3 /\ Len(payload.username) <= 50
    /\ Len(payload.password) >= 8

\* pwd_context.hash and pwd_context.verify, the salt left out.
hash_password(password) == <<"bcrypt", password>>

verify_password(plain_password, hashed_password) ==
    hashed_password = hash_password(plain_password)

\* UserOut.model_validate(user)
UserOut(row) ==
    [id |-> row.id, username |-> row.username, email |-> row.email,
     is_active |-> row.is_active, is_admin |-> row.is_admin]

\* select(User).where((User.username == payload.username)
\*                    | (User.email == payload.email))
Existing(payload) ==
    {i \in DOMAIN users : \/ users[i].username = payload.username
                          \/ users[i].email = payload.email}

\* POST /auth/register.  scalar_one_or_none() raises MultipleResultsFound on
\* two rows, which the application answers with 500.
Register(payload) ==
    /\ LET existing == Existing(payload)
           arg == [username |-> payload.username, email |-> payload.email]
       IN IF ~UserRegisterValid(payload)
          THEN /\ resp' = Unprocessable("register", None, NoCred, arg)
               /\ UNCHANGED users
          ELSE IF Cardinality(existing) > 1
          THEN /\ resp' = Response("register", 500, "Internal Server Error",
                                   None, NoCred, arg, None)
               /\ UNCHANGED users
          ELSE IF existing # {}
          THEN /\ resp' = Response("register", 400,
                              IF \E i \in existing :
                                    users[i].username = payload.username
                              THEN "Username already taken"
                              ELSE "Email already registered",
                              None, NoCred, arg, None)
               /\ UNCHANGED users
          ELSE LET user == [UserRow(Len(users) + 1, payload.username, TRUE, FALSE)
                              EXCEPT !.email = payload.email,
                                     !.hashed_password =
                                         hash_password(payload.password)]
               IN /\ Len(users) < MaxUsers
                  /\ users' = Append(users, user)
                  /\ resp' = Response("register", 201, "", None, NoCred, arg,
                                      Some(UserOut(user)))
    /\ prev' = Shift
    /\ UNCHANGED <<api_keys, comics, next_comic, now, pc, local>>

\* The select of login without the test of is_active.
LoginUser_AnyStatus(username) ==
    {i \in DOMAIN users : users[i].username = username}

\* select(User).where(User.username == payload.username,
\*                    User.is_active == True)
LoginUser(username) ==
    {i \in DOMAIN users : users[i].username = username /\ users[i].is_active}

\* POST /auth/login
Login(payload) ==
    /\ \E found \in {LoginUser(payload.username)} :
       IF \/ found = {}
          \/ \E i \in found :
                ~verify_password(payload.password, users[i].hashed_password)
       THEN resp' = Response("login", 401, "Incorrect username or password",
                             None, NoCred, payload, None)
       ELSE \E i \in found :
               resp' = Response("login", 200, "", None, NoCred, payload,
                                Some([access_token |-> create_access_token(i, now),
                                      token_type |-> "bearer",
                                      user |-> UserOut(users[i])]))
    /\ prev' = Shift
    /\ UNCHANGED <<users, api_keys, comics, next_comic, now, pc, local>>

\* The clock advances.
Tick ==
    /\ now < MaxTime
    /\ now' = now + 1
    /\ UNCHANGED <<users, api_keys, comics, next_comic, resp, prev, pc, local>>

---------------------------------------------------------------------------
\* schemas/schemas.py and models/models.py: comics.

\* The fields of ComicBase and ComicUpdate, in the order of the schema.
MetaFields ==
    << "title", "series", "alternate_series", "number", "count", "volume",
       "alternate_number", "alternate_count", "summary", "notes", "year",
       "month", "day", "publisher", "imprint", "writer", "penciller", "inker",
       "colorist", "letterer", "cover_artist", "editor", "translator", "genre",
       "tags", "web", "age_rating", "language_iso", "format", "is_bw", "manga",
       "community_rating", "review", "page_count", "cover_url", "isbn",
       "barcode", "series_group" >>

MetaSet == {MetaFields[i] : i \in DOMAIN MetaFields}

\* The columns of the table comics.
ComicColumns ==
    MetaSet \cup {"id", "cover_image_path", "created_at", "updated_at", "created_by"}

\* A request body that supplies no field.
EmptyPayload == [f \in MetaSet |-> None]

\* Field(None, ge=lo, le=hi)
InRange(o, lo, hi) == o = None \/ (lo <= Val(o) /\ Val(o) <= hi)

\* Field(None, ge=lo)
AtLeast(o, lo) == o = None \/ lo <= Val(o)

\* Field(None, max_length=n)
MaxLength(o, n) == o = None \/ Len(Val(o)) <= n

\* ComicCreate(ComicBase): title required, the numeric fields bounded.
ComicCreateValid(payload) ==
    /\ payload.title # None
    /\ MaxLength(payload.title, 500)
    /\ MaxLength(payload.series, 500)
    /\ InRange(payload.year, 1800, 2100)
    /\ InRange(payload.month, 1, 12)
    /\ InRange(payload.day, 1, 31)
    /\ MaxLength(payload.publisher, 255)
    /\ MaxLength(payload.language_iso, 10)
    /\ InRange(payload.community_rating, 0, 5)
    /\ AtLeast(payload.page_count, 0)
    /\ MaxLength(payload.cover_url, 1000)

\* ComicUpdate: every field optional, title at most 500 characters.
ComicUpdateValid(payload) == MaxLength(payload.title, 500)

\* Comic(**payload.model_dump(), created_by=current_user.id), with the
\* column defaults.
NewComic(id, payload, user_id) ==
    [c \in ComicColumns |->
        IF c \in MetaSet THEN payload[c]
        ELSE IF c = "id" THEN id
        ELSE IF c = "cover_image_path" THEN None
        ELSE IF c = "created_by" THEN Some(user_id)
        ELSE now]

\* payload.model_dump() in place of model_dump(exclude_none=True).
UpdateData_KeepNone(payload) == MetaSet

\* payload.model_dump(exclude_none=True): the keys the update assigns.
UpdateData(payload) == {f \in MetaSet : payload[f] # None}

\* for key, value in update_data.items(): setattr(comic, key, value); the
\* commit stamps updated_at (onupdate) when a column changed.
ApplyUpdate(comic, payload) ==
    LET set == [c \in ComicColumns |->
                   IF c \in UpdateData(payload) THEN payload[c] ELSE comic[c]]
    IN IF set = comic THEN comic ELSE [set EXCEPT !.updated_at = now]

\* select(Comic).where(Comic.id == comic_id).scalar_one_or_none()
ComicById(comic_id) ==
    LET hit == {c \in comics : c.id = comic_id}
    IN IF hit = {} THEN None ELSE Some(CHOOSE c \in hit : TRUE)

\* The permission test with the admin exemption dropped.
MayNotEdit_NoAdmin(comic, user_id) == comic.created_by # Some(user_id)

\* comic.created_by != current_user.id and not current_user.is_admin
MayNotEdit(comic, user_id) ==
    comic.created_by # Some(user_id) /\ ~users[user_id].is_admin

Forbidden(op, detail, user, cred, arg) ==
    Response(op, 403, detail, user, cred, arg, None)

\* The missing comic answered as a permission failure.
NotFound_AsForbidden(op, user, cred, arg) ==
    Response(op, 403, "Comic not found", user, cred, arg, None)

NotFound(op, user, cred, arg) ==
    Response(op, 404, "Comic not found", user, cred, arg, None)

---------------------------------------------------------------------------
\* api/comics.py

\* POST /comics.  maxrows: the model's bound on the comics ever inserted.
CreateComic(cred, payload, maxrows) ==
    /\ \E auth \in {get_current_user(cred, api_keys)} :
       LET user == auth.user
       IN /\ api_keys' = auth.keys
          /\ IF user = None
             THEN /\ resp' = NotAuthenticated("create_comic", cred, payload)
                  /\ UNCHANGED <<comics, next_comic>>
             ELSE IF ~ComicCreateValid(payload)
             THEN /\ resp' = Unprocessable("create_comic", user, cred, payload)
                  /\ UNCHANGED <<comics, next_comic>>
             ELSE LET comic == NewComic(next_comic, payload, Val(user))
                  IN /\ next_comic <= maxrows
                     /\ comics' = comics \cup {comic}
                     /\ next_comic' = next_comic + 1
                     /\ resp' = Response("create_comic", 201, "", user, cred,
                                         payload, Some(comic))
    /\ prev' = Shift
    /\ UNCHANGED <<users, now, pc, local>>

\* PATCH /comics/{comic_id}
UpdateComic(cred, comic_id, payload) ==
    /\ \E auth \in {get_current_user(cred, api_keys)} :
       LET user == auth.user
           arg == [comic_id |-> comic_id, payload |-> payload]
           comic == ComicById(comic_id)
       IN /\ api_keys' = auth.keys
          /\ IF user = None
             THEN /\ resp' = NotAuthenticated("update_comic", cred, arg)
                  /\ UNCHANGED comics
             ELSE IF ~ComicUpdateValid(payload)
             THEN /\ resp' = Unprocessable("update_comic", user, cred, arg)
                  /\ UNCHANGED comics
             ELSE IF comic = None
             THEN /\ resp' = NotFound("update_comic", user, cred, arg)
                  /\ UNCHANGED comics
             ELSE IF MayNotEdit(Val(comic), Val(user))
             THEN /\ resp' = Forbidden("update_comic",
                                       "Not allowed to edit this comic",
                                       user, cred, arg)
                  /\ UNCHANGED comics
             ELSE LET updated == ApplyUpdate(Val(comic), payload)
                  IN /\ comics' = (comics \ {Val(comic)}) \cup {updated}
                     /\ resp' = Response("update_comic", 200, "", user, cred,
                                         arg, Some(updated))
    /\ prev' = Shift
    /\ UNCHANGED <<users, next_comic, now, pc, local>>

\* DELETE /comics/{comic_id}
DeleteComic(cred, comic_id) ==
    /\ \E auth \in {get_current_user(cred, api_keys)} :
       LET user == auth.user
           arg == [comic_id |-> comic_id, payload |-> EmptyPayload]
           comic == ComicById(comic_id)
       IN /\ api_keys' = auth.keys
          /\ IF user = None
             THEN /\ resp' = NotAuthenticated("delete_comic", cred, arg)
                  /\ UNCHANGED comics
             ELSE IF comic = None
             THEN /\ resp' = NotFound("delete_comic", user, cred, arg)
                  /\ UNCHANGED comics
             ELSE IF MayNotEdit(Val(comic), Val(user))
             THEN /\ resp' = Forbidden("delete_comic",
                                       "Not allowed to delete this comic",
                                       user, cred, arg)
                  /\ UNCHANGED comics
             ELSE /\ comics' = comics \ {Val(comic)}
                  /\ resp' = Response("delete_comic", 204, "", user, cred,
                                      arg, None)
    /\ prev' = Shift
    /\ UNCHANGED <<users, next_comic, now, pc, local>>

---------------------------------------------------------------------------
\* api/comics.py: search and listing.

\* SearchParams with the defaults of the query parameters.
DefaultParams ==
    [q |-> None, series |-> None, publisher |-> None, writer |-> None,
     genre |-> None, year_from |-> None, year_to |-> None, language |-> None,
     manga |-> None, age_rating |-> None,
     page |-> 1, page_size |-> 20, sort_by |-> "title", sort_order |-> "asc"]

SortColumns == {"title", "year", "publisher", "community_rating", "created_at"}

\* Query(1, ge=1), Query(20, ge=1, le=100) and the two patterns.
ParamsValid(params) ==
    /\ params.page >= 1
    /\ params.page_size >= 1 /\ params.page_size <= 100
    /\ params.sort_by \in SortColumns
    /\ params.sort_order \in {"asc", "desc"}

\* ILIKE folds case.
Lower(ch) == IF ch >= 65 /\ ch <= 90 THEN ch + 32 ELSE ch

\* s from position i matches the LIKE pattern p from position j:
\* % is any run of characters, _ any one character, \ quotes the next one.
RECURSIVE Like(_, _, _, _)
Like(s, i, p, j) ==
    IF j > Len(p) THEN i > Len(s)
    ELSE IF p[j] = 37 THEN \/ Like(s, i, p, j + 1)
                           \/ i <= Len(s) /\ Like(s, i + 1, p, j)
    ELSE IF p[j] = 95 THEN i <= Len(s) /\ Like(s, i + 1, p, j + 1)
    ELSE IF p[j] = 92 /\ j < Len(p)
         THEN /\ i <= Len(s)
              /\ Lower(s[i]) = Lower(p[j + 1])
              /\ Like(s, i + 1, p, j + 2)
    ELSE /\ i <= Len(s)
         /\ Lower(s[i]) = Lower(p[j])
         /\ Like(s, i + 1, p, j + 1)

\* column.ilike(f"%{text}%"); a NULL column matches nothing.
ilike(column, text) ==
    column # None /\ Like(Val(column), 1, <<37>> \o text \o <<37>>, 1)

\* if params.year_from: Comic.year >= params.year_from
\* if params.year_to: Comic.year <= params.year_to
YearFilters(params, comic) ==
    /\ TruthyInt(params.year_from) =>
          comic.year # None /\ Val(comic.year) >= Val(params.year_from)
    /\ TruthyInt(params.year_to) =>
          comic.year # None /\ Val(comic.year) <= Val(params.year_to)

\* The filters of build_search_query other than the two on year.
OtherFilters(params, comic) ==
    /\ TruthyStr(params.q) =>
          \/ ilike(comic.title, Val(params.q))
          \/ ilike(comic.series, Val(params.q))
          \/ ilike(comic.summary, Val(params.q))
          \/ ilike(comic.writer, Val(params.q))
          \/ ilike(comic.publisher, Val(params.q))
    /\ TruthyStr(params.series) => ilike(comic.series, Val(params.series))
    /\ TruthyStr(params.publisher) => ilike(comic.publisher, Val(params.publisher))
    /\ TruthyStr(params.writer) => ilike(comic.writer, Val(params.writer))
    /\ TruthyStr(params.genre) => ilike(comic.genre, Val(params.genre))
    /\ TruthyStr(params.language) => comic.language_iso = params.language
    /\ TruthyStr(params.manga) => comic.manga = params.manga
    /\ TruthyStr(params.age_rating) => comic.age_rating = params.age_rating

\* and_(*build_search_query(params)) on one row.
build_search_query(params, comic) ==
    OtherFilters(params, comic) /\ YearFilters(params, comic)

\* Strings compare character by character, a prefix first.
StrLess(s, t) ==
    \E i \in 1..Len(t) :
        /\ \A j \in 1..(i - 1) : j <= Len(s) /\ s[j] = t[j]
        /\ i > Len(s) \/ s[i] < t[i]

\* getattr(Comic, params.sort_by) on one row.
sort_col(comic, sort_by) ==
    IF sort_by = "created_at" THEN Some(comic.created_at) ELSE comic[sort_by]

\* a sorts strictly before b ascending; NULL sorts as the greatest value.
Before(a, b, sort_by) ==
    LET ka == sort_col(a, sort_by)
        kb == sort_col(b, sort_by)
    IN IF ka = None THEN FALSE
       ELSE IF kb = None THEN TRUE
       ELSE IF sort_by \in {"title", "publisher"} THEN StrLess(Val(ka), Val(kb))
       ELSE Val(ka) < Val(kb)

\* order_fn(sort_col): asc or desc.
order_fn(a, b, sort_by, sort_order) ==
    IF sort_order = "asc" THEN Before(a, b, sort_by) ELSE Before(b, a, sort_by)

\* The rows no other row sorts strictly before.
Foremost(rows, sort_by, sort_order) ==
    {m \in rows : \A r \in rows : ~order_fn(r, m, sort_by, sort_order)}

\* The orders in which ORDER BY may return the rows: rows with equal keys
\* come in any order.
RECURSIVE Orderings(_, _, _)
Orderings(rows, sort_by, sort_order) ==
    IF rows = {} THEN {<< >>}
    ELSE UNION { { <<m>> \o rest :
                     rest \in Orderings(rows \ {m}, sort_by, sort_order) } :
                 m \in Foremost(rows, sort_by, sort_order) }

\* The offset taken as page * page_size.
Offset_PageTimesSize(params) == params.page * params.page_size

\* offset = (params.page - 1) * params.page_size
Offset(params) == (params.page - 1) * params.page_size

\* .offset(offset).limit(limit) on the ordered rows.
OffsetLimit(rows, offset, limit) ==
    LET last == IF offset + limit < Len(rows) THEN offset + limit ELSE Len(rows)
    IN SubSeq(rows, offset + 1, last)

\* ComicListOut.model_validate(c)
ComicListOut(c) ==
    [id |-> c.id, title |-> c.title, series |-> c.series, number |-> c.number,
     year |-> c.year, publisher |-> c.publisher, cover_url |-> c.cover_url,
     community_rating |-> c.community_rating]

PaginatedComics(total, params, rows) ==
    [total |-> total, page |-> params.page, page_size |-> params.page_size,
     results |-> [i \in DOMAIN rows |-> ComicListOut(rows[i])]]

\* GET /comics
ListComics(cred, params) ==
    /\ \E auth \in {get_current_user(cred, api_keys)} :
       LET user == auth.user
       IN /\ api_keys' = auth.keys
          /\ IF user = None
             THEN resp' = NotAuthenticated("list_comics", cred, params)
             ELSE IF ~ParamsValid(params)
             THEN resp' = Unprocessable("list_comics", user, cred, params)
             ELSE \E matching \in {{c \in comics : build_search_query(params, c)}} :
                  \E rows \in {OffsetLimit(ordered, Offset(params), params.page_size) :
                                ordered \in Orderings(matching, params.sort_by,
                                                      params.sort_order)} :
                     resp' = Response("list_comics", 200, "", user, cred, params,
                                      Some(PaginatedComics(Cardinality(matching),
                                                           params, rows)))
    /\ prev' = Shift
    /\ UNCHANGED <<users, comics, next_comic, now, pc, local>>

---------------------------------------------------------------------------
\* services/comicinfo.py

\* The elements generate_comicinfo_xml may add, in the order of its
\* statements: the tag and the attribute of the comic it is taken from.
XmlFields ==
    << <<"Title", "title">>, <<"Series", "series">>, <<"Number", "number">>,
       <<"Count", "count">>, <<"Volume", "volume">>,
       <<"AlternateSeries", "alternate_series">>,
       <<"AlternateNumber", "alternate_number">>,
       <<"AlternateCount", "alternate_count">>,
       <<"SeriesGroup", "series_group">>, <<"Summary", "summary">>,
       <<"Notes", "notes">>, <<"Year", "year">>, <<"Month", "month">>,
       <<"Day", "day">>, <<"Publisher", "publisher">>, <<"Imprint", "imprint">>,
       <<"Writer", "writer">>, <<"Penciller", "penciller">>, <<"Inker", "inker">>,
       <<"Colorist", "colorist">>, <<"Letterer", "letterer">>,
       <<"CoverArtist", "cover_artist">>, <<"Editor", "editor">>,
       <<"Translator", "translator">>, <<"Genre", "genre">>, <<"Tags", "tags">>,
       <<"Web", "web">>, <<"Format", "format">>, <<"AgeRating", "age_rating">>,
       <<"LanguageISO", "language_iso">>, <<"Manga", "manga">>,
       <<"BlackAndWhite", "is_bw">>, <<"CommunityRating", "community_rating">>,
       <<"Review", "review">>, <<"PageCount", "page_count">>,
       <<"ISBN", "isbn">>, <<"Barcode", "barcode">> >>

\* str() of an integer: its decimal digits.
RECURSIVE Digits(_)
Digits(n) ==
    IF n < 0 THEN <<45>> \o Digits(0 - n)
    ELSE IF n < 10 THEN <<48 + n>>
    ELSE Digits(n \div 10) \o <<48 + (n % 10)>>

\* el.text = str(value): a string as it is, an integer column in digits, the
\* float column community_rating (a whole number here) with ".0", and is_bw
\* as "Yes" or "No".
ElementText(field, value) ==
    IF field \in {"count", "volume", "alternate_count", "year", "month", "day",
                  "page_count"}
    THEN Digits(value)
    ELSE IF field = "community_rating" THEN Digits(value) \o <<46, 48>>
    ELSE IF field = "is_bw" THEN (IF value THEN <<89, 101, 115>> ELSE <<78, 111>>)
    ELSE value

\* Whether the statement for the field adds an element: _add_if_present adds
\* it for a value that is not None; ISBN and Barcode are further guarded by
\* `if comic.isbn:` and `if comic.barcode:`.
_add_if_present(comic, field) ==
    IF field \in {"isbn", "barcode"} THEN TruthyStr(comic[field])
    ELSE comic[field] # None

\* The children of the root element ComicInfo, in document order.
generate_comicinfo_xml(comic) ==
    LET added == SelectSeq(XmlFields, LAMBDA e : _add_if_present(comic, e[2]))
    IN [i \in DOMAIN added |->
           [tag |-> added[i][1],
            text |-> ElementText(added[i][2], Val(comic[added[i][2]]))]]

\* GET /comics/{comic_id}/comicinfo.xml
DownloadComicInfo(cred, comic_id) ==
    /\ \E auth \in {get_current_user(cred, api_keys)} :
       LET user == auth.user
           arg == [comic_id |-> comic_id, payload |-> EmptyPayload]
           comic == ComicById(comic_id)
       IN /\ api_keys' = auth.keys
          /\ IF user = None
             THEN resp' = NotAuthenticated("download_comicinfo", cred, arg)
             ELSE IF comic = None
             THEN resp' = NotFound("download_comicinfo", user, cred, arg)
             ELSE resp' = Response("download_comicinfo", 200, "", user, cred, arg,
                                   Some([root |-> "ComicInfo",
                                         children |->
                                             generate_comicinfo_xml(Val(comic))]))
    /\ prev' = Shift
    /\ UNCHANGED <<users, comics, next_comic, now, pc, local>>

---------------------------------------------------------------------------
\* The store the service starts on.

NoBrief == Brief(NoResponse)

Init ==
    /\ users = SeedUsers
    /\ api_keys = SeedKeys
    /\ comics = {}
    /\ next_comic = 1
    /\ now = 0
    /\ resp = NoResponse
    /\ prev = None
    /\ pc = << >>
    /\ local = << >>

\* The same store, with the history of responses switched on.
InitHistory ==
    /\ users = SeedUsers
    /\ api_keys = SeedKeys
    /\ comics = {}
    /\ next_comic = 1
    /\ now = 0
    /\ resp = NoResponse
    /\ prev = <<NoBrief, NoBrief>>
    /\ pc = << >>
    /\ local = << >>

\* A bearer token login issued to user u at the current time.
TokenOf(u) == [token |-> Some(create_access_token(u, now)), api_key |-> None]

---------------------------------------------------------------------------
\* SpecKeys: one user's API-key requests, handled one at a time and
\* authenticated by bearer token.  The caller revokes its oldest active key,
\* its oldest revoked key, or a key that is not its own.

KeyPayloads == {[name |-> "laptop", expires_at |-> None]}

OldestOf(S) == IF S = {} THEN {} ELSE {CHOOSE k \in S : \A j \in S : k <= j}

RevokeTargets(u) ==
    OldestOf(ActiveKeysOf(u, api_keys))
    \cup OldestOf({k \in DOMAIN api_keys :
                      api_keys[k].user_id = u /\ ~api_keys[k].is_active})
    \cup OldestOf({k \in DOMAIN api_keys : api_keys[k].user_id # u})

NextKeys ==
    \/ \E payload \in KeyPayloads :
          CreateApiKey(TokenOf(Alice), payload, Draw(Len(api_keys)), MaxKeys)
    \/ \E k \in RevokeTargets(Alice) : RevokeApiKey(TokenOf(Alice), k)

SpecKeys == InitHistory /\ [][NextKeys]_vars

---------------------------------------------------------------------------
\* SpecRace: NumProcs create_api_key requests of one user in flight at once,
\* their steps interleaved.  The user starts with the RaceSeed keys that as
\* many create_api_key requests, handled one at a time, have stored.

Procs == 1..NumProcs

RECURSIVE KeysAfter(_)
KeysAfter(n) ==
    IF n = 0 THEN SeedKeys
    ELSE LET keys == KeysAfter(n - 1)
             full_key == generate_api_key(Draw(Len(keys)))
         IN Append(keys, ApiKeyRow(Len(keys) + 1, Alice, "laptop",
                                   hash_api_key(full_key),
                                   Slice(full_key, PrefixLen), None, 0))

InitRace ==
    /\ users = SeedUsers
    /\ api_keys = KeysAfter(RaceSeed)
    /\ comics = {}
    /\ next_comic = 1
    /\ now = 0
    /\ resp = NoResponse
    /\ prev = None
    /\ pc = [p \in Procs |-> "idle"]
    /\ local = [p \in Procs |-> NoLocal]

NextRace ==
    \E p \in Procs :
        \/ \E payload \in KeyPayloads : CreateBegin(p, TokenOf(Alice), payload)
        \/ CreateSelect(p)
        \/ CreateCheck(p)
        \/ CreateAdd(p, Draw(NumProcs * Len(api_keys) + p))
        \/ CreateCommit(p, MaxKeys)

SpecRace == InitRace /\ [][NextRace]_vars

---------------------------------------------------------------------------
\* SpecAuth: requests that present a bearer token, an X-API-Key header, both
\* or neither, against keys that are issued, revoked and expire.

\* The keys issued so far: row i > 1 was issued from draw i - 1.
IssuedKeys == {generate_api_key(Draw(i - 1)) : i \in 2..Len(api_keys)}

\* A key that was not issued.
UnknownKey == generate_api_key(Draw(Len(api_keys)))

\* No token, a token login just issued, and an expired one.
AuthTokens ==
    { None,
      Some(create_access_token(Bob, now)),
      Some([create_access_token(Bob, now) EXCEPT !.exp = now - 1]) }

\* A forged token, a token without subject, the token of a deactivated user.
BadTokens ==
    { Some([create_access_token(Carol, now) EXCEPT !.sig_ok = FALSE]),
      Some([create_access_token(Bob, now) EXCEPT !.sub = None]),
      Some(create_access_token(Dave, now)) }

AuthHeaders ==
    {None, Some(DaveKey), Some(UnknownKey)} \cup {Some(k) : k \in IssuedKeys}

AuthCreds ==
    [token : AuthTokens, api_key : AuthHeaders]
    \cup [token : BadTokens, api_key : {None}]
    \cup [token : {None}, api_key : {Some(<< >>)}]

AuthPayloads ==
    { [name |-> "laptop", expires_at |-> None],
      [name |-> "ci", expires_at |-> Some(0)] }

NextAuth ==
    \/ \E payload \in AuthPayloads :
          CreateApiKey(TokenOf(Alice), payload, Draw(Len(api_keys)), MaxAuthKeys)
    \/ \E k \in DOMAIN api_keys : RevokeApiKey(TokenOf(Alice), k)
    \/ \E cred \in AuthCreds : GetMe(cred)
    \/ Tick

SpecAuth == Init /\ [][NextAuth]_vars

---------------------------------------------------------------------------
\* Requests on comics: their creator, another user, an administrator, and a
\* caller without credentials.

\* "Maus", "Akira", "memoir"
Maus == <<77, 97, 117, 115>>
Akira == <<65, 107, 105, 114, 97>>
Memoir == <<109, 101, 109, 111, 105, 114>>

MausPayload == [EmptyPayload EXCEPT !.title = Some(Maus), !.year = Some(1986)]

EditPayloads ==
    { [EmptyPayload EXCEPT !.summary = Some(Memoir)],
      [EmptyPayload EXCEPT !.title = Some(Akira)] }

Editors == {TokenOf(Alice), TokenOf(Bob), TokenOf(Carol), NoCred}

\* The ids a request can name: every id ever issued and one never issued.
ComicIds == 1..next_comic

NextComics ==
    \/ CreateComic(TokenOf(Alice), MausPayload, MaxEdited)
    \/ \E cred \in Editors, id \in ComicIds, payload \in EditPayloads :
          UpdateComic(cred, id, payload)
    \/ \E cred \in Editors, id \in ComicIds : DeleteComic(cred, id)

SpecComics == Init /\ [][NextComics]_vars

---------------------------------------------------------------------------
\* Bodies at and beyond the bounds of the schemas.

\* The greatest values ComicCreate accepts.
EdgePayload ==
    [EmptyPayload EXCEPT !.title = Some(Maus), !.year = Some(2100),
                         !.month = Some(12), !.day = Some(31),
                         !.community_rating = Some(5), !.page_count = Some(0)]

CreateBodies ==
    { EdgePayload,
      [EdgePayload EXCEPT !.year = Some(2101)],
      [EdgePayload EXCEPT !.page_count = Some(-1)],
      [EdgePayload EXCEPT !.title = None] }

UpdateBodies ==
    { [EmptyPayload EXCEPT !.year = Some(3000), !.month = Some(13),
                           !.day = Some(0), !.community_rating = Some(6),
                           !.page_count = Some(-1)],
      [EmptyPayload EXCEPT !.title = Some(Akira), !.year = Some(1800)] }

NextValid ==
    \/ \E payload \in CreateBodies :
          CreateComic(TokenOf(Alice), payload, MaxEdited)
    \/ \E id \in ComicIds, payload \in UpdateBodies :
          UpdateComic(TokenOf(Alice), id, payload)

SpecValid == Init /\ [][NextValid]_vars

---------------------------------------------------------------------------
\* Listing requests over a store with equal titles and a comic without year.

\* "MA"
QueryMa == <<77, 65>>

ListedPayloads ==
    { [EmptyPayload EXCEPT !.title = Some(Maus), !.year = Some(1986)],
      [EmptyPayload EXCEPT !.title = Some(Akira)],
      [EmptyPayload EXCEPT !.title = Some(Maus), !.year = Some(2000)] }

\* The first two pages of sizes 1 and 2 by title, and of size 2 by year.
PageParams ==
    { [DefaultParams EXCEPT !.page = pg, !.page_size = sz] :
        pg \in 1..2, sz \in 1..2 }
    \cup
    { [DefaultParams EXCEPT !.page = pg, !.page_size = 2,
                            !.sort_by = "year", !.sort_order = "desc"] :
        pg \in 1..2 }

FilterParams ==
    { [DefaultParams EXCEPT !.year_from = Some(1990)],
      [DefaultParams EXCEPT !.year_from = Some(1986), !.year_to = Some(2000),
                            !.page_size = 1],
      [DefaultParams EXCEPT !.year_to = Some(0)],
      [DefaultParams EXCEPT !.q = Some(QueryMa), !.year_to = Some(1990)],
      [DefaultParams EXCEPT !.page = 0] }

NextList ==
    \/ \E payload \in ListedPayloads :
          CreateComic(TokenOf(Alice), payload, MaxComics)
    \/ \E params \in PageParams \cup FilterParams :
          ListComics(TokenOf(Bob), params)

SpecList == Init /\ [][NextList]_vars

---------------------------------------------------------------------------
\* Registrations and logins: new names, names and addresses in use, and the
\* name of one stored user with the address of another.

Registration(username, email, password) ==
    [username |-> username, email |-> email, password |-> password]

RegisterPayloads ==
    { Registration("erin", "erin@example.com", "erin-password"),
      Registration("frank", "frank@example.com", "frank-password"),
      Registration("grace", "erin@example.com", "grace-password"),
      Registration("alice", "alice@new.example", "other-password"),
      Registration("alice", "bob@example.com", "other-password"),
      Registration("al", "al@example.com", "al-password") }

LoginPayloads ==
    { [username |-> "alice", password |-> "alice-password"],
      [username |-> "alice", password |-> "erin-password"],
      [username |-> "dave", password |-> "dave-password"],
      [username |-> "erin", password |-> "erin-password"],
      [username |-> "grace", password |-> "grace-password"] }

NextUsers ==
    \/ \E payload \in RegisterPayloads : Register(payload)
    \/ \E payload \in LoginPayloads : Login(payload)
    \/ Tick

SpecUsers == Init /\ [][NextUsers]_vars

---------------------------------------------------------------------------
\* Two users manage their keys, each request authenticated by bearer token
\* or by one of the keys issued.

OwnCreds ==
    {TokenOf(Alice), TokenOf(Bob)}
    \cup {[token |-> None, api_key |-> Some(k)] : k \in IssuedKeys}

NextOwn ==
    \/ \E u \in {Alice, Bob}, payload \in KeyPayloads :
          CreateApiKey(TokenOf(u), payload, Draw(Len(api_keys)), MaxOwnKeys)
    \/ \E cred \in OwnCreds, k \in DOMAIN api_keys : RevokeApiKey(cred, k)
    \/ \E cred \in OwnCreds : ListApiKeys(cred)

SpecOwn == Init /\ [][NextOwn]_vars

---------------------------------------------------------------------------
\* Exports of comics with only a title, with numbers and a flag, with an
\* empty identifier and with a cover address.

\* "https://x/c.jpg"
CoverAddress == <<104, 116, 116, 112, 115, 58, 47, 47, 120, 47, 99, 46, 106, 112, 103>>

ExportPayloads ==
    { [EmptyPayload EXCEPT !.title = Some(Maus)],
      [EmptyPayload EXCEPT !.title = Some(Akira), !.year = Some(1986),
                           !.is_bw = Some(TRUE), !.community_rating = Some(4),
                           !.page_count = Some(0), !.summary = Some(<< >>)],
      [EmptyPayload EXCEPT !.title = Some(Maus), !.isbn = Some(<< >>)],
      [EmptyPayload EXCEPT !.title = Some(Akira), !.cover_url = Some(CoverAddress)] }

NextExport ==
    \/ \E payload \in ExportPayloads :
          CreateComic(TokenOf(Alice), payload, MaxEdited)
    \/ \E cred \in {TokenOf(Bob), NoCred}, id \in ComicIds :
          DownloadComicInfo(cred, id)

SpecExport == Init /\ [][NextExport]_vars

---------------------------------------------------------------------------
\* The number of rows of user u with is_active = true.
ActiveCount(u, keys) ==
    Cardinality({k \in DOMAIN keys : keys[k].user_id = u /\ keys[k].is_active})

\* C1: a create_api_key by a user with 10 active keys answers 400 with the
\* capacity message and stores nothing; below 10 it answers 201 and stores
\* one new active key of the caller; revoking an active key of the caller
\* lowers the caller's active count by one, so that the create following a
\* capacity error and a revoke of one of the 10 keys succeeds.
C1_CapacityThenRevoke ==
    [][\A u \in UserIds :
         /\ (resp'.op = "create_api_key" /\ resp'.user = Some(u)) =>
               IF ActiveCount(u, api_keys) >= 10
               THEN /\ resp'.status = 400
                    /\ resp'.detail = "Maximum 10 active API keys per user"
                    /\ api_keys' = api_keys
               ELSE /\ resp'.status = 201
                    /\ Len(api_keys') = Len(api_keys) + 1
                    /\ SubSeq(api_keys', 1, Len(api_keys)) = api_keys
                    /\ api_keys'[Len(api_keys')].user_id = u
                    /\ api_keys'[Len(api_keys')].is_active
                    /\ ActiveCount(u, api_keys') = ActiveCount(u, api_keys) + 1
         /\ ( /\ resp'.op = "revoke_api_key" /\ resp'.user = Some(u)
              /\ resp'.arg \in DOMAIN api_keys
              /\ api_keys[resp'.arg].user_id = u
              /\ api_keys[resp'.arg].is_active ) =>
               /\ resp'.status = 204
               /\ ActiveCount(u, api_keys') = ActiveCount(u, api_keys) - 1
         /\ ( /\ prev[2] = [op |-> "create_api_key", user |-> Some(u), status |-> 400]
              /\ Brief(resp) = [op |-> "revoke_api_key", user |-> Some(u), status |-> 204]
              /\ resp.arg \in DOMAIN api_keys
              /\ ActiveCount(u, api_keys) = 9
              /\ resp'.op = "create_api_key" /\ resp'.user = Some(u) ) =>
               /\ resp'.status = 201
               /\ ActiveCount(u, api_keys') = 10
      ]_vars

\* C1 witness: a capacity error, then a revoke, then a successful create that
\* brings the caller back to 10 active keys.
C1_Witness ==
    /\ prev[1] = [op |-> "create_api_key", user |-> Some(Alice), status |-> 400]
    /\ prev[2] = [op |-> "revoke_api_key", user |-> Some(Alice), status |-> 204]
    /\ Brief(resp) = [op |-> "create_api_key", user |-> Some(Alice), status |-> 201]
    /\ ActiveCount(Alice, api_keys) = 10
    /\ api_keys[Len(api_keys)].is_active

\* C2: in every reachable state, also of interleaved create_api_key
\* requests, each user has at most 10 active keys.
C2_AtMostTenActive ==
    \A u \in UserIds : ActiveCount(u, api_keys) <= 10

\* The step handles a request to op (the clock's step leaves resp as it is).
Handled(op) == resp'.op = op /\ now' = now

\* The bearer token resolves to the active user u: its signature verifies,
\* it is not expired, and its subject is u.
TokenResolves(token, u) ==
    /\ token # None
    /\ Val(token).sig_ok
    /\ Val(token).exp >= now
    /\ Val(token).sub = Some(u)
    /\ u \in DOMAIN users /\ users[u].is_active

\* The hash of the header value, if there is one.
HeaderHash(api_key) ==
    IF api_key = None THEN None ELSE Some(hash_api_key(Val(api_key)))

\* A header value with hash h resolves to the active user u: a stored key has
\* the hash, is active and not expired, and is owned by u.
HashResolves(h, u) ==
    /\ h # None
    /\ \E k \in DOMAIN api_keys :
          /\ api_keys[k].user_id = u
          /\ api_keys[k].key_hash = Val(h)
          /\ api_keys[k].is_active
          /\ api_keys[k].expires_at = None \/ Val(api_keys[k].expires_at) >= now
    /\ u \in DOMAIN users /\ users[u].is_active

KeyResolves(api_key, u) == HashResolves(HeaderHash(api_key), u)

\* C3: a request whose token resolves to T and whose key resolves to K is
\* handled as T; a request of which neither resolves is answered 401 Not
\* authenticated.
C3_TokenPrecedence ==
    [][Handled("get_me") =>
         \A h \in {HeaderHash(resp'.cred.api_key)} :
         /\ \A t, k \in UserIds :
               (TokenResolves(resp'.cred.token, t) /\ HashResolves(h, k)) =>
               resp'.status = 200 /\ resp'.user = Some(t) /\ resp'.body = Some(t)
         /\ ( \A u \in UserIds : ~TokenResolves(resp'.cred.token, u)
                                  /\ ~HashResolves(h, u) ) =>
               /\ resp'.status = 401
               /\ resp'.detail = "Not authenticated"
               /\ resp'.user = None
      ]_vars

\* C3 witness: a request with the token of one user and the key of another
\* was handled as the token's user.
C3_Witness ==
    /\ resp.op = "get_me" /\ resp.status = 200
    /\ TokenResolves(resp.cred.token, Bob)
    /\ KeyResolves(resp.cred.api_key, Alice)
    /\ resp.user = Some(Bob)

\* C4: a request with only a key is handled as user u exactly when the stored
\* key with the hash of the presented secret is active, is not expired and is
\* owned by the active user u; every other request with only a key has no
\* identity.
C4_KeyResolution ==
    [][(Handled("get_me") /\ resp'.cred.token = None) =>
         \A h \in {HeaderHash(resp'.cred.api_key)} :
         /\ \A u \in UserIds : resp'.user = Some(u) <=> HashResolves(h, u)
         /\ resp'.user = None <=> resp'.status = 401
      ]_vars

\* C4 witness: the correct secret of an expired key was presented and gave no
\* identity.
C4_Witness ==
    /\ resp.op = "get_me" /\ resp.status = 401 /\ resp.cred.token = None
    /\ resp.cred.api_key # None
    /\ \E k \in DOMAIN api_keys :
          /\ api_keys[k].key_hash = hash_api_key(Val(resp.cred.api_key))
          /\ api_keys[k].is_active
          /\ users[api_keys[k].user_id].is_active
          /\ api_keys[k].expires_at # None
          /\ Val(api_keys[k].expires_at) < now

---------------------------------------------------------------------------
\* The comic a request on comics names, before and after the request.
Target == Val(ComicById(resp'.arg.comic_id))

TargetAfter == CHOOSE c \in comics' : c.id = resp'.arg.comic_id

StoredAfter(comic_id) == \E c \in comics' : c.id = comic_id

\* The request reached the handler: the caller is authenticated and the
\* body passed ComicUpdate.
Edits(op) ==
    /\ Handled(op)
    /\ resp'.user # None
    /\ ComicUpdateValid(resp'.arg.payload)

MayEdit(comic, u) == comic.created_by = Some(u) \/ users[u].is_admin

\* C5: for an existing comic and an authenticated user, update_comic and
\* delete_comic succeed (200 with the comic, 204 with the comic removed) when
\* the user is the comic's creator or an administrator; otherwise they
\* answer 403 and the table comics is as it was, the comic still in it.
C5_CreatorOrAdmin ==
    [][ \A op \in {"update_comic", "delete_comic"} :
          (Edits(op) /\ ComicById(resp'.arg.comic_id) # None) =>
             IF MayEdit(Target, Val(resp'.user))
             THEN IF op = "update_comic"
                  THEN /\ resp'.status = 200
                       /\ resp'.body = Some(TargetAfter)
                  ELSE /\ resp'.status = 204
                       /\ ~StoredAfter(resp'.arg.comic_id)
             ELSE /\ resp'.status = 403
                  /\ comics' = comics
                  /\ Target \in comics' ]_vars

\* C5 witness: the administrator, who did not create the comic, has deleted
\* it, and another comic is still stored.
C5_Witness ==
    /\ resp.op = "delete_comic"
    /\ resp.status = 204
    /\ resp.user = Some(Carol)
    /\ comics # {}
    /\ \A c \in comics : c.id # resp.arg.comic_id

\* C6: update_comic and delete_comic by an authenticated user answer 404
\* when no comic with the id is stored, and answer 403 only when the comic
\* is stored and the caller is neither its creator nor an administrator.
C6_NotFoundBeforeForbidden ==
    [][ \A op \in {"update_comic", "delete_comic"} :
          Edits(op) =>
             /\ ComicById(resp'.arg.comic_id) = None => resp'.status = 404
             /\ resp'.status = 403 =>
                   /\ ComicById(resp'.arg.comic_id) # None
                   /\ ~MayEdit(Target, Val(resp'.user)) ]_vars

\* C6 witness: a user who is neither creator nor administrator asked to
\* update a comic that was created and deleted, and got 404.
C6_Witness ==
    /\ resp.op = "update_comic"
    /\ resp.status = 404
    /\ resp.user = Some(Bob)
    /\ resp.arg.comic_id < next_comic
    /\ ComicById(resp.arg.comic_id) = None

\* C7: a successful update_comic sets every metadata field the payload
\* supplies non-null to that value, leaves the other metadata fields, id,
\* created_by, created_at and every other comic as they were, and turns no
\* stored non-null field into null.
C7_PatchFrame ==
    [][ (Handled("update_comic") /\ resp'.status = 200) =>
          LET payload == resp'.arg.payload
          IN /\ \A f \in MetaSet :
                   /\ TargetAfter[f] =
                         IF payload[f] # None THEN payload[f] ELSE Target[f]
                   /\ Target[f] # None => TargetAfter[f] # None
             /\ TargetAfter.id = Target.id
             /\ TargetAfter.created_by = Target.created_by
             /\ TargetAfter.created_at = Target.created_at
             /\ comics' \ {TargetAfter} = comics \ {Target} ]_vars

\* C7 witness: an update that supplied only summary has succeeded on a
\* comic that keeps its title and year, with another comic stored.
C7_Witness ==
    /\ resp.op = "update_comic"
    /\ resp.status = 200
    /\ resp.arg.payload.summary = Some(Memoir)
    /\ resp.arg.payload.title = None
    /\ Val(resp.body).summary = Some(Memoir)
    /\ Val(resp.body).title # None
    /\ Val(resp.body).year = Some(1986)
    /\ Val(resp.body) \in comics
    /\ Cardinality(comics) >= 2

\* C8: every stored comic has a title, and each of its numeric fields that
\* is not null lies within the bounds of ComicBase: year 1800..2100, month
\* 1..12, day 1..31, community_rating 0..5, page_count at least 0.
C8_StoredWithinBounds ==
    \A c \in comics :
        /\ c.title # None
        /\ InRange(c.year, 1800, 2100)
        /\ InRange(c.month, 1, 12)
        /\ InRange(c.day, 1, 31)
        /\ InRange(c.community_rating, 0, 5)
        /\ AtLeast(c.page_count, 0)

\* The comics a listing request selects.
Matching == {c \in comics : build_search_query(resp'.arg, c)}

Listed == Handled("list_comics") /\ resp'.status = 200

\* Comic c can stand at position p of the rows in the requested order:
\* fewer than p rows sort strictly before it, and at least p rows do not sort
\* strictly after it.
StandsAt(c, p, rows, sort_by, sort_order) ==
    /\ Cardinality({r \in rows : order_fn(r, c, sort_by, sort_order)}) < p
    /\ Cardinality({r \in rows : ~order_fn(c, r, sort_by, sort_order)}) >= p

\* C9: a list_comics request over N matching comics answers total = N and
\* the comics at positions (page-1)*page_size+1 .. min(page*page_size, N)
\* of the matching comics in the requested order, none when the offset is
\* at least N: the results are that many different matching comics, each
\* at its position in the order.
C9_Pagination ==
    [][ Listed =>
          \E matching \in {Matching} :
          \E N \in {Cardinality(matching)} :
          LET params == resp'.arg
              body == Val(resp'.body)
              first == (params.page - 1) * params.page_size + 1
              last == IF params.page * params.page_size < N
                      THEN params.page * params.page_size ELSE N
          IN /\ body.total = N
             /\ first - 1 >= N => body.results = << >>
             /\ DOMAIN body.results = 1..(last - first + 1)
             /\ \A i, j \in DOMAIN body.results :
                   i # j => body.results[i].id # body.results[j].id
             /\ \A i \in DOMAIN body.results :
                   \E c \in matching :
                      /\ body.results[i] = ComicListOut(c)
                      /\ StandsAt(c, first + i - 1, matching, params.sort_by,
                                  params.sort_order) ]_vars

\* C9 witness: page 2 of size 2 over three matching comics holds one comic,
\* the third, and total is 3.
C9_Witness ==
    /\ resp.op = "list_comics"
    /\ resp.status = 200
    /\ resp.arg.page = 2
    /\ resp.arg.page_size = 2
    /\ Val(resp.body).total = 3
    /\ Len(Val(resp.body).results) = 1

\* The year lies within the inclusive bounds the request supplies.
YearWithin(params, year) ==
    /\ params.year_from # None => year # None /\ Val(year) >= Val(params.year_from)
    /\ params.year_to # None => year # None /\ Val(year) <= Val(params.year_to)

\* C10: whatever integers year_from and year_to a list_comics request
\* supplies, every comic returned has a year within those inclusive bounds,
\* and total counts the stored comics within them that pass the other
\* filters.
C10_YearRange ==
    [][ Listed =>
          LET params == resp'.arg
              body == Val(resp'.body)
          IN /\ \A i \in DOMAIN body.results :
                   YearWithin(params, body.results[i].year)
             /\ body.total =
                   Cardinality({c \in comics : /\ YearWithin(params, c.year)
                                               /\ OtherFilters(params, c)}) ]_vars

\* The ids on a page of results.
PageIds(body) == {body.results[i].id : i \in DOMAIN body.results}

\* C11: with the store unchanged, a list_comics request that repeats the
\* previous one answers the same results in the same order, and a request
\* for another page of the same listing answers none of the comics of the
\* previous page.
C11_Deterministic ==
    [][ (Listed /\ resp.op = "list_comics" /\ resp.status = 200
                /\ comics' = comics) =>
          /\ resp'.arg = resp.arg => resp'.body = resp.body
          /\ ( /\ resp'.arg.page # resp.arg.page
               /\ [resp'.arg EXCEPT !.page = resp.arg.page] = resp.arg ) =>
                PageIds(Val(resp'.body)) \cap PageIds(Val(resp.body)) = {} ]_vars

\* C12: a register request is answered "Username already taken" when a
\* stored user has its username, otherwise "Email already registered" when a
\* stored user has its e-mail address, both with no user added; otherwise
\* exactly one user is added.
C12_RegisterUnique ==
    [][ (Handled("register") /\ resp'.status # 422) =>
          IF \E i \in DOMAIN users : users[i].username = resp'.arg.username
          THEN /\ resp'.status = 400
               /\ resp'.detail = "Username already taken"
               /\ users' = users
          ELSE IF \E i \in DOMAIN users : users[i].email = resp'.arg.email
          THEN /\ resp'.status = 400
               /\ resp'.detail = "Email already registered"
               /\ users' = users
          ELSE /\ resp'.status = 201
               /\ Len(users') = Len(users) + 1
               /\ SubSeq(users', 1, Len(users)) = users
               /\ users'[Len(users')].username = resp'.arg.username ]_vars

\* The stored users a login request names with the right password.
Verified(payload) ==
    {i \in DOMAIN users : /\ users[i].username = payload.username
                          /\ users[i].hashed_password = <<"bcrypt", payload.password>>}

\* C13: login answers 200 with a token whose subject is the user's id
\* exactly when a stored user has the username, is active, and the password
\* verifies; unknown username, wrong password and inactive account get the
\* same 401 with the same message and no body; and no table changes.
C13_Login ==
    [][ Handled("login") =>
          LET payload == resp'.arg
              ok == {i \in Verified(payload) : users[i].is_active}
          IN /\ resp'.status = 200 <=> ok # {}
             /\ resp'.status = 200 =>
                   \E i \in ok :
                      /\ Val(resp'.body).access_token.sub = Some(i)
                      /\ Val(resp'.body).user.id = i
             /\ resp'.status # 200 =>
                   /\ resp'.status = 401
                   /\ resp'.detail = "Incorrect username or password"
                   /\ resp'.body = None
             /\ users' = users /\ api_keys' = api_keys /\ comics' = comics ]_vars

\* C13 witness: a deactivated user has given the right password and got
\* the 401 of a wrong one.
C13_Witness ==
    /\ resp.op = "login"
    /\ resp.status = 401
    /\ resp.detail = "Incorrect username or password"
    /\ \E i \in Verified(resp.arg) : ~users[i].is_active

\* The full key row k was issued with: row k comes from draw k - 1.
Secret(k) == generate_api_key(Draw(k - 1))

\* The body of a response holds the characters of the full key.
Reveals(r, secret) ==
    /\ r.body # None
    /\ \/ /\ r.op = "create_api_key"
          /\ \/ Val(r.body).full_key = secret
             \/ Val(r.body).out.key_prefix = secret
       \/ /\ r.op = "list_api_keys"
          /\ \E i \in DOMAIN Val(r.body) :
                \/ "full_key" \in DOMAIN Val(r.body)[i]
                \/ "key_hash" \in DOMAIN Val(r.body)[i]
                \/ Val(r.body)[i].key_prefix = secret

\* C14: a stored key holds the hash of its full key and the first 10
\* characters of it, and no field with the key itself; a response reveals
\* the full key of a stored key only if it is the 201 of the create_api_key
\* request that issued that key.
C14_SecretOnce ==
    \A k \in DOMAIN api_keys :
        \E secret \in {Secret(k)} :
           /\ api_keys[k].key_hash = hash_api_key(secret)
           /\ api_keys[k].key_prefix = SubSeq(secret, 1, 10)
           /\ Len(secret) > 10
           /\ "full_key" \notin DOMAIN api_keys[k]
           /\ Reveals(resp, secret) =>
                 /\ resp.op = "create_api_key"
                 /\ resp.status = 201
                 /\ Val(resp.body).out.id = k

\* C14 witness: list_api_keys has answered with a key whose full key was
\* issued earlier; the answer carries its prefix.
C14_Witness ==
    /\ resp.op = "list_api_keys"
    /\ resp.status = 200
    /\ \E i \in DOMAIN Val(resp.body) :
          Val(resp.body)[i].key_prefix = SubSeq(Secret(Val(resp.body)[i].id), 1, 10)

\* Row k is the key a header with hash h is accepted for: it has the hash,
\* is active and is not expired.
Touched(h, k) ==
    /\ h # None
    /\ api_keys[k].key_hash = Val(h)
    /\ api_keys[k].is_active
    /\ api_keys[k].expires_at = None \/ Val(api_keys[k].expires_at) >= now

\* A key that is not active stays stored and not active.
StaysRevoked ==
    \A k \in DOMAIN api_keys :
        ~api_keys[k].is_active =>
            k \in DOMAIN api_keys' /\ ~api_keys'[k].is_active

\* list_api_keys returns every key of the caller, the revoked ones too.
ListsRevoked ==
    (Handled("list_api_keys") /\ resp'.status = 200) =>
        \A k \in DOMAIN api_keys' :
            api_keys'[k].user_id = Val(resp'.user) =>
                \E i \in DOMAIN Val(resp'.body) : Val(resp'.body)[i].id = k

\* C15 as stated: a successful revoke_api_key changes the table api_keys in
\* is_active of the key named and in nothing else; the key is still listed
\* and never becomes active again.
C15_RevokeOnlyFlag ==
    [][ /\ (Handled("revoke_api_key") /\ resp'.status = 204) =>
              api_keys' = [api_keys EXCEPT ![resp'.arg].is_active = FALSE]
        /\ ListsRevoked
        /\ StaysRevoked ]_vars

\* C15: a successful revoke_api_key sets is_active of the key named to
\* false and, when the request presented a key that was accepted, sets
\* last_used_at of the key presented to the time of the request; every other
\* field of every key is as it was, no key is removed, the key is still
\* listed and never becomes active again.
C15_RevokeFrame ==
    [][ /\ (Handled("revoke_api_key") /\ resp'.status = 204) =>
              \A h \in {HeaderHash(resp'.cred.api_key)} :
                 /\ DOMAIN api_keys' = DOMAIN api_keys
                 /\ \A j \in DOMAIN api_keys :
                       api_keys'[j] =
                          [api_keys[j] EXCEPT
                             !.is_active = IF j = resp'.arg THEN FALSE ELSE @,
                             !.last_used_at =
                                 IF Touched(h, j) THEN Some(now) ELSE @]
        /\ ListsRevoked
        /\ StaysRevoked ]_vars

\* C15 witness: a key was revoked by a request that presented that key; the
\* key is stored, not active, and used at the time of the request.
C15_Witness ==
    /\ resp.op = "revoke_api_key"
    /\ resp.status = 204
    /\ resp.cred.api_key = Some(Secret(resp.arg))
    /\ resp.arg \in DOMAIN api_keys
    /\ ~api_keys[resp.arg].is_active
    /\ api_keys[resp.arg].last_used_at = Some(now)

\* C18: revoke_api_key by a user presenting its own credentials, with the id
\* of a key of another user, answers 404 and leaves that key as it was;
\* list_api_keys answers exactly the keys of the caller, active or revoked,
\* each once.
C18_Isolation ==
    [][ /\ ( /\ Handled("revoke_api_key")
             /\ resp'.user # None
             /\ resp'.arg \in DOMAIN api_keys
             /\ api_keys[resp'.arg].user_id # Val(resp'.user) ) =>
               /\ resp'.status = 404
               /\ resp'.detail = "API key not found"
               /\ api_keys'[resp'.arg] = api_keys[resp'.arg]
        /\ (Handled("list_api_keys") /\ resp'.status = 200) =>
               \E body \in {Val(resp'.body)} :
                  /\ {body[i].id : i \in DOMAIN body} =
                        {k \in DOMAIN api_keys' :
                            api_keys'[k].user_id = Val(resp'.user)}
                  /\ \A i, j \in DOMAIN body : body[i].id = body[j].id => i = j
                  /\ \A i \in DOMAIN body :
                        body[i] = ApiKeyOut(api_keys'[body[i].id]) ]_vars

\* C18 witness: a user asked to revoke the active key of another user and
\* got 404; the key is still active.
C18_Witness ==
    /\ resp.op = "revoke_api_key"
    /\ resp.status = 404
    /\ resp.user = Some(Alice)
    /\ resp.arg \in DOMAIN api_keys
    /\ api_keys[resp.arg].user_id = Bob
    /\ api_keys[resp.arg].is_active

\* C17: a request sets last_used_at of a key to the time of the request
\* exactly when its X-API-Key header has the hash of that key and the key is
\* active and not expired, whatever the token it carries and whatever the
\* response; last_used_at of every other key is as it was.
C17_LastUsed ==
    [][ (now' = now) =>
          \A h \in {HeaderHash(resp'.cred.api_key)} :
             /\ DOMAIN api_keys \subseteq DOMAIN api_keys'
             /\ \A k \in DOMAIN api_keys :
                   api_keys'[k].last_used_at =
                      IF Touched(h, k) THEN Some(now)
                      ELSE api_keys[k].last_used_at ]_vars

\* C17 witness: the key of a deactivated user was presented; the request
\* was answered 401 and the key is marked as used at that time.
C17_Witness ==
    /\ resp.op = "get_me"
    /\ resp.status = 401
    /\ resp.cred.api_key = Some(DaveKey)
    /\ api_keys[1].last_used_at = Some(now)

\* The position of a tag in the fixed order of the elements.
TagOrder(tag) == CHOOSE i \in DOMAIN XmlFields : XmlFields[i][1] = tag

\* C16: the children of the root of an exported comic are one for each
\* metadata attribute that is set and none for an attribute that is not, in
\* the fixed order of the fields, BlackAndWhite reading Yes or No; a comic
\* with only title set has the one child Title with the title.
C16_OneChildPerAttribute ==
    [][ (Handled("download_comicinfo") /\ resp'.status = 200) =>
          LET comic == Target
              children == Val(resp'.body).children
              set == {f \in MetaSet : comic[f] # None}
          IN /\ {XmlFields[TagOrder(children[i].tag)][2] : i \in DOMAIN children}
                   = set
             /\ Len(children) = Cardinality(set)
             /\ \A i, j \in DOMAIN children :
                   i < j => TagOrder(children[i].tag) < TagOrder(children[j].tag)
             /\ \A i \in DOMAIN children :
                   children[i].tag = "BlackAndWhite" =>
                      children[i].text \in {<<89, 101, 115>>, <<78, 111>>}
             /\ set = {"title"} =>
                   children = << [tag |-> "Title", text |-> Val(comic.title)] >> ]_vars

=============================================================================
